---------------------------- MODULE Spec2Model ----------------------------
(***************************************************************************)
(* Model of generate_espeak-ng_import.py: extraction of German loan words  *)
(* from a Wiktionary export and conversion of their IPA transcription to   *)
(* espeak-ng (Kirshenbaum) phoneme codes.                                  *)
(*                                                                         *)
(* A Python str is modelled as a sequence of code points.  An ASCII code   *)
(* point is written as itself ("a", "(", " "), any other code point as     *)
(* "uXXXX" with its hexadecimal number:                                    *)
(*   u00F5 o with tilde       u00F8 o with stroke     u0101 a with macron  *)
(*   u0250 turned a           u0251 script a          u0254 open o         *)
(*   u0259 schwa              u025C reversed open e   u026A small capital i*)
(*   u027E fish-hook r        u0281 inverted capital r                     *)
(*   u028A upsilon            u02D0 length mark       u02D1 half-length    *)
(*   u0303 combining tilde    u030A combining ring above                   *)
(*   u0311 combining inverted breve   u031D combining up tack below        *)
(*   u032F combining inverted breve below                                  *)
(*   u033A combining inverted bridge below                                 *)
(*   u0342 combining perispomeni      u0361 combining double inv. breve    *)
(*   u203F undertie                                                        *)
(***************************************************************************)
EXTENDS Integers, Sequences, FiniteSets, TLC

VARIABLES
    idx_list,       \* module global: labels already emitted (line 23)
    pc,             \* position of the script: "idle", "writing", "done",
                    \* "crashed" (an exception left the loop), "off"
    doc,            \* the pages of the document being processed
    terms,          \* entry records returned by extract_loan_words
    issue_terms,    \* issue records, extended by the writer loop
    k,              \* index of the next entry the writer loop handles
    out,            \* lines written to de_extra, each <<label, encoded>>
    issue_file,     \* rows of issue_terms.tab, <<>> while it is not written
    fpc,            \* position of a direct call of a string function:
                    \* "ready", "ipa", "ipa2", "espeak", "convert", "off"
    arg,            \* argument of that call
    flag,           \* correct_phonemes argument of that call
    res,            \* value the call returned
    prev,           \* value returned by the call before it
    raised          \* exception that left the call ("none" when it returned)

vars == <<idx_list, pc, doc, terms, issue_terms, k, out, issue_file,
          fpc, arg, flag, res, prev, raised>>

pipeVars == <<idx_list, pc, doc, terms, issue_terms, k, out, issue_file>>

fnVars == <<fpc, arg, flag, res, prev, raised>>

---------------------------------------------------------------------------
(* Bounds of the model. *)

\* longest argument string of a direct call of a string function
MaxLen == 3

\* most pages of a document
MaxPages == 2

---------------------------------------------------------------------------
(* Python str operations. *)

\* s.startswith(p)
StartsWith(s, p) ==
    Len(s) >= Len(p) /\ SubSeq(s, 1, Len(p)) = p

RECURSIVE Replace(_, _, _)
\* s.replace(p, r) for a non-empty p: every non-overlapping occurrence,
\* leftmost first; the replacement text is not scanned again.
Replace(s, p, r) ==
    IF Len(s) < Len(p) THEN s
    ELSE IF StartsWith(s, p)
         THEN r \o Replace(SubSeq(s, Len(p) + 1, Len(s)), p, r)
         ELSE <<Head(s)>> \o Replace(Tail(s), p, r)

RECURSIVE ReplaceChain(_, _, _)
\* s.replace(p1, r1).replace(p2, r2)... for the pairs table[i..]
ReplaceChain(s, table, i) ==
    IF i > Len(table) THEN s
    ELSE ReplaceChain(Replace(s, table[i][1], table[i][2]), table, i + 1)

RECURSIVE Split(_, _)
\* s.split(c) for a single character c: '' gives [''], 'a  b' gives
\* ['a', '', 'b']
Split(s, c) ==
    IF \A i \in 1..Len(s) : s[i] # c THEN <<s>>
    ELSE LET i == CHOOSE j \in 1..Len(s) :
                      s[j] = c /\ \A h \in 1..(j - 1) : s[h] # c
         IN <<SubSeq(s, 1, i - 1)>> \o Split(SubSeq(s, i + 1, Len(s)), c)

RECURSIVE Join(_, _)
\* sep.join(list)
Join(sep, list) ==
    IF list = <<>> THEN <<>>
    ELSE IF Len(list) = 1 THEN list[1]
    ELSE list[1] \o sep \o Join(sep, Tail(list))

\* c.lower() for one code point
LowerChar(c) ==
    CASE c = "A" -> "a"
      [] c = "B" -> "b"
      [] c = "E" -> "e"
      [] c = "I" -> "i"
      [] OTHER -> c

\* s.lower()
Lower(s) == [i \in 1..Len(s) |-> LowerChar(s[i])]

---------------------------------------------------------------------------
(* The two replacement tables. *)

\* the chain of _ipa_code_corrections, in its order
IPA_CORRECTIONS ==
    << << <<"a", "u02D0", "u0250", "u032F">>, <<"u0251", "u02D0", "u027E">> >>,
       << <<"u0250">>, <<"u025C">> >>,
       << <<"i", "u032F">>, <<"i">> >>,
       << <<"u0281">>, <<"u027E">> >>,
       << <<"u025C", "u032F">>, <<"a">> >>,
       << <<"u028A", "u032F">>, <<"u028A">> >>,
       << <<"o", "u032F">>, <<"o">> >>,
       << <<"u026A", "u032F">>, <<"u026A">> >>,
       << <<"y", "u032F">>, <<"y">> >>,
       << <<"y", "u0311">>, <<"y">> >>,
       << <<"u02D1">>, <<"u02D0">> >>,
       << <<"-">>, <<>> >>,
       << <<"u203F">>, <<"u02D0">> >>,
       << <<"u0361">>, <<"u02D0">> >>,
       << <<"(", "u02D0", ")">>, <<"u02D0">> >>,
       << <<"(", "r", ")">>, <<"r">> >>,
       << <<"(", "u0259", ")">>, <<"u0259">> >>,
       << <<"u00F5">>, <<"u0254">> >>,
       << <<"u0254", "u0303">>, <<"u0254">> >>,
       << <<"u0101">>, <<"e", "i">> >>,
       << <<"a", "u0342">>, <<"u0254">> >>,
       << <<"i", "u030A">>, <<"i">> >>,
       << <<"e", "u031D">>, <<"e">> >>,
       << <<"r", "u033A">>, <<"u027E">> >> >>

\* the chain of _espeak_code_corrections, in its order
ESPEAK_CORRECTIONS ==
    << << <<"Y">>, <<"Y", ":">> >>,
       << <<"V", "\"">>, <<"@", "r">> >>,
       << <<"V">>, <<"@">> >>,
       << <<"#">>, <<" ">> >>,
       << <<"&">>, <<"E">> >>,
       << <<"<", "t", "r", "l", ">">>, <<>> >>,
       << <<"<", "o", ">">>, <<>> >>,
       << <<".">>, <<>> >>,
       << <<"E", "~">>, <<"W">> >>,
       << <<" ">>, <<"|", "|">> >> >>

\* the chain with its second and fifth replacements in each other's place
_ipa_code_corrections_reordered(ipa_code) ==
    ReplaceChain(ipa_code,
                 [i \in 1..Len(IPA_CORRECTIONS) |->
                     IF i = 2 THEN IPA_CORRECTIONS[5]
                     ELSE IF i = 5 THEN IPA_CORRECTIONS[2]
                     ELSE IPA_CORRECTIONS[i]],
                 1)

\* _ipa_code_corrections(ipa_code)
_ipa_code_corrections(ipa_code) == ReplaceChain(ipa_code, IPA_CORRECTIONS, 1)

\* the chain with the space replacement moved to the front
_espeak_code_corrections_space_first(espeak_code) ==
    ReplaceChain(espeak_code,
                 <<ESPEAK_CORRECTIONS[Len(ESPEAK_CORRECTIONS)]>>
                     \o SubSeq(ESPEAK_CORRECTIONS, 1,
                               Len(ESPEAK_CORRECTIONS) - 1),
                 1)

\* _espeak_code_corrections(espeak_code)
_espeak_code_corrections(espeak_code) ==
    ReplaceChain(espeak_code, ESPEAK_CORRECTIONS, 1)

---------------------------------------------------------------------------
(* The Alphabet Mapper and the Conversion Orchestrator. *)

\* Kirshenbaum code of each IPA code point the model's transcriptions hold
\* after or without correction (ipapy's table; the trill r is 'r<trl>', the
\* word break ' ' is '#').  A code point outside this table stands for one
\* ipapy cannot map.
KIRSHENBAUM ==
    [c \in {"a", "d", "e", "f", "i", "l", "o", "r", " ",
            "u00F8", "u0254", "u0259", "u025C", "u02D0"} |->
        CASE c = "r"     -> <<"r", "<", "t", "r", "l", ">">>
          [] c = " "     -> <<"#">>
          [] c = "u00F8" -> <<"Y">>
          [] c = "u0254" -> <<"O">>
          [] c = "u0259" -> <<"@">>
          [] c = "u025C" -> <<"V", "\"">>
          [] c = "u02D0" -> <<":">>
          [] OTHER       -> <<c>>]

\* KirshenbaumMapper().map_unicode_string(unicode_string, ignore=False,
\* single_char_parsing=None, return_as_list=True): the list of codes, or a
\* ValueError when a character cannot be mapped (nothing is ignored).
MapUnicodeString(unicode_string) ==
    IF \A i \in 1..Len(unicode_string) :
           unicode_string[i] \in DOMAIN KIRSHENBAUM
    THEN [exc |-> "none",
          list |-> [i \in 1..Len(unicode_string) |->
                       KIRSHENBAUM[unicode_string[i]]]]
    ELSE [exc |-> "ValueError", list |-> <<>>]

\* the literal 'failed'
FAILED == <<"f", "a", "i", "l", "e", "d">>

\* the literal 'not available'
NOT_AVAILABLE ==
    <<"n", "o", "t", " ", "a", "v", "a", "i", "l", "a", "b", "l", "e">>

\* the mapper call without the except clause: the ValueError leaves the call
TryMap_NoExcept(ipa_code) ==
    LET m == MapUnicodeString(ipa_code)
    IN IF m.exc = "none"
       THEN [exc |-> "none",
             value |-> _espeak_code_corrections(Join(<<>>, m.list))]
       ELSE [exc |-> m.exc, value |-> <<>>]

\* the try/except of convert_ipa_2_espeak_phoneme around the mapper call:
\* a ValueError is caught and turned into 'failed'
TryMap(ipa_code) ==
    LET m == MapUnicodeString(ipa_code)
    IN IF m.exc = "none"
       THEN [exc |-> "none",
             value |-> _espeak_code_corrections(Join(<<>>, m.list))]
       ELSE IF m.exc = "ValueError"
       THEN [exc |-> "none", value |-> FAILED]
       ELSE [exc |-> m.exc, value |-> <<>>]

\* the input the mapper is given: corrected when correct_phonemes is set
MapperInput(ipa_code, correct_phonemes) ==
    IF correct_phonemes THEN _ipa_code_corrections(ipa_code) ELSE ipa_code

\* convert_ipa_2_espeak_phoneme(ipa_code, correct_phonemes): the value
\* returned and the exception that leaves the call ("none": it returns)
convert_ipa_2_espeak_phoneme(ipa_code, correct_phonemes) ==
    TryMap(MapperInput(ipa_code, correct_phonemes))

---------------------------------------------------------------------------
(* extract_loan_words. *)

\* a word limit that is one too high
WordLimit_Five == 4 + 1

\* espeak-ng allows up to 4 words as a term
WordLimit == 4

\* A page of the export, as the extractor reads it: has_text (the text
\* node is non-empty), has_category with lang (the category regex matches,
\* lang is its group), title, has_pron (the {{Aussprache}} marker occurs),
\* has_attr with lautschrift (the IPA attribute occurs, lautschrift is the
\* text up to the next '}}').
Page(title, lang, has_pron, has_attr, lautschrift) ==
    [has_text |-> TRUE, has_category |-> TRUE, lang |-> lang, title |-> title,
     has_pron |-> has_pron, has_attr |-> has_attr, lautschrift |-> lautschrift]

\* title.text.lower().split(' ')
LabelList(page) == Split(Lower(page.title), " ")

\* category_loan_word_section_pos.groups()[0][:-2].lower()
CategoryLoanWord(page) == Lower(SubSeq(page.lang, 1, Len(page.lang) - 2))

\* the ipa_code of a page: '' unless both markers are found
IpaCode(page) ==
    IF page.has_pron /\ page.has_attr THEN page.lautschrift ELSE <<>>

\* ipa_code.split(' ') if ipa_code else []
IpaCodeList(ipa_code) ==
    IF ipa_code # <<>> THEN Split(ipa_code, " ") ELSE <<>>

\* the label of a page that passed the word limit
LabelOf(label_list) ==
    IF Len(label_list) > 1
    THEN <<"(">> \o Join(<<" ">>, label_list) \o <<")">>
    ELSE Join(<<" ">>, label_list)

\* the record given the '||'-joined segments that the issue log shows
TermIpa_Joined(ipa_code, ipa_code_list) == Join(<<"|", "|">>, ipa_code_list)

\* term['IPA']: the transcription as found, not its segments
TermIpa(ipa_code, ipa_code_list) == ipa_code

\* the dedup guard left out: every label counts as new
IsNewLabel_Always(label, seen) == TRUE

\* the dedup guard: whether the label is new
IsNewLabel(label, seen) == label \notin seen

\* one iteration of the page loop on the state acc = [terms, issue_terms,
\* idx_list]
ExtractPage(acc, page) ==
    IF ~page.has_text \/ ~page.has_category THEN acc
    ELSE
      LET label_list == LabelList(page)
          category_loan_word == CategoryLoanWord(page)
          ipa_code == IpaCode(page)
      IN IF Len(label_list) > WordLimit
         THEN [acc EXCEPT !.issue_terms =
                  Append(@, <<Join(<<" ">>, label_list), ipa_code, "excluded">>)]
         ELSE
           LET ipa_code_list == IpaCodeList(ipa_code)
               label == LabelOf(label_list)
               mismatch == /\ Len(label_list) > 1
                           /\ Len(ipa_code_list) > 0
                           /\ Len(ipa_code_list) < Len(label_list)
               issues == IF mismatch
                         THEN Append(acc.issue_terms,
                                     <<Join(<<" ">>, label_list),
                                       Join(<<"|", "|">>, ipa_code_list),
                                       "included">>)
                         ELSE acc.issue_terms
           IN IF IsNewLabel(label, acc.idx_list)
              THEN [terms |-> Append(acc.terms,
                                     [label |-> label,
                                      category_loan_word |-> category_loan_word,
                                      IPA |-> TermIpa(ipa_code, ipa_code_list)]),
                    issue_terms |-> issues,
                    idx_list |-> acc.idx_list \cup {label}]
              ELSE [acc EXCEPT !.issue_terms = issues]

RECURSIVE ExtractFrom(_, _, _)
\* the page loop from page i on
ExtractFrom(acc, pages, i) ==
    IF i > Len(pages) THEN acc
    ELSE ExtractFrom(ExtractPage(acc, pages[i]), pages, i + 1)

\* extract_loan_words on a document, with the global idx_list as found
ExtractResult(pages, seen) ==
    ExtractFrom([terms |-> <<>>, issue_terms |-> <<>>, idx_list |-> seen],
                pages, 1)

---------------------------------------------------------------------------
(* The documents the model draws. *)

\* 'Italienischen' and 'Englischen', the language names of two category
\* markers
LangItalian ==
    <<"I", "t", "a", "l", "i", "e", "n", "i", "s", "c", "h", "e", "n">>

LangEnglish == <<"E", "n", "g", "l", "i", "s", "c", "h", "e", "n">>

\* a page without text, and a page whose text holds no loan-word category
NoTextPage ==
    [has_text |-> FALSE, has_category |-> FALSE, lang |-> <<>>,
     title |-> <<"a">>, has_pron |-> FALSE, has_attr |-> FALSE,
     lautschrift |-> <<>>]

NoCategoryPage ==
    [has_text |-> TRUE, has_category |-> FALSE, lang |-> <<>>,
     title |-> <<"a">>, has_pron |-> TRUE, has_attr |-> TRUE,
     lautschrift |-> <<"a">>]

\* the pages a document is made of
Pages ==
    { NoTextPage, NoCategoryPage,
      \* 'A' and 'a': one label, two categories, two transcriptions
      Page(<<"A">>, LangItalian, TRUE, TRUE, <<"a">>),
      Page(<<"a">>, LangEnglish, TRUE, TRUE, <<"u00F8">>),
      \* two words, one segment; the second cannot be mapped
      Page(<<"a", " ", "b">>, LangItalian, TRUE, TRUE, <<"a">>),
      Page(<<"A", " ", "b">>, LangEnglish, TRUE, TRUE, <<"X">>),
      \* three words, two segments
      Page(<<"b", " ", "a", " ", "e">>, LangItalian, TRUE, TRUE,
           <<"u00F8", " ", "a">>),
      \* five words; five tokens of which three are empty
      Page(<<"a", " ", "b", " ", "a", " ", "b", " ", "e">>, LangItalian,
           TRUE, TRUE, <<"a">>),
      Page(<<"a", " ", " ", "b", " ", " ">>, LangEnglish, TRUE, TRUE,
           <<"u00F8">>),
      \* no pronunciation section; a section without the IPA attribute
      Page(<<"b">>, LangItalian, FALSE, TRUE, <<"a">>),
      Page(<<"B">>, LangEnglish, TRUE, FALSE, <<>>),
      \* a transcription the corrector empties, and the transcription 'failed'
      Page(<<"e">>, LangItalian, TRUE, TRUE, <<"-">>),
      Page(<<"E">>, LangEnglish, TRUE, TRUE, FAILED) }

\* the sequences over S of length at most n
SeqsUpTo(S, n) == UNION {[1..m -> S] : m \in 0..n}

Documents == SeqsUpTo(Pages, MaxPages)

---------------------------------------------------------------------------
(* The script: extraction, then the writer loop of __main__. *)

Init ==
    /\ idx_list = {}
    /\ pc = "idle"
    /\ doc = <<>>
    /\ terms = <<>>
    /\ issue_terms = <<>>
    /\ k = 1
    /\ out = <<>>
    /\ issue_file = <<>>
    /\ fpc = "off"
    /\ arg = <<>>
    /\ flag = TRUE
    /\ res = <<>>
    /\ prev = <<>>
    /\ raised = "none"

\* terms, issue_terms = extract_loan_words(file)
extract_loan_words(pages) ==
    /\ pc = "idle"
    /\ LET r == ExtractResult(pages, idx_list)
       IN /\ terms' = r.terms
          /\ issue_terms' = r.issue_terms
          /\ idx_list' = r.idx_list
    /\ doc' = pages
    /\ k' = 1
    /\ out' = <<>>
    /\ pc' = "writing"
    /\ UNCHANGED issue_file
    /\ UNCHANGED fnVars

\* one iteration of 'for t in terms'
WriteTerm ==
    /\ pc = "writing"
    /\ k <= Len(terms)
    /\ LET t == terms[k]
           c == convert_ipa_2_espeak_phoneme(t.IPA, TRUE)
           converted_espeak == c.value
       IN IF c.exc # "none"
          THEN /\ pc' = "crashed"
               /\ UNCHANGED <<terms, issue_terms, out, k>>
          ELSE
            /\ pc' = pc
            /\ k' = k + 1
            /\ IF converted_espeak = <<>>
               THEN /\ issue_terms' =
                         Append(issue_terms,
                                <<t.label, NOT_AVAILABLE, "excluded">>)
                    /\ UNCHANGED <<terms, out>>
               ELSE IF converted_espeak = FAILED
               THEN /\ issue_terms' =
                         Append(issue_terms, <<t.label, t.IPA, "excluded">>)
                    /\ UNCHANGED <<terms, out>>
               ELSE LET espeak == _espeak_code_corrections(converted_espeak)
                    IN /\ terms' =
                            [terms EXCEPT ![k] =
                                [label |-> t.label,
                                 category_loan_word |-> t.category_loan_word,
                                 IPA |-> t.IPA,
                                 ESPEAK |-> espeak]]
                       /\ out' = Append(out, <<t.label, espeak>>)
                       /\ UNCHANGED issue_terms
    /\ UNCHANGED <<idx_list, doc, issue_file>>
    /\ UNCHANGED fnVars

\* the header row of issue_terms.tab
ISSUE_HEADER == <<"loan_word", "IPA_code", "status">>

\* the loop is over: de_extra is closed, and issue_terms.tab is written when
\* there are issue records
FinishRun ==
    /\ pc = "writing"
    /\ k > Len(terms)
    /\ pc' = "done"
    /\ issue_file' = IF issue_terms # <<>>
                     THEN <<ISSUE_HEADER>> \o issue_terms
                     ELSE <<>>
    /\ UNCHANGED <<idx_list, doc, terms, issue_terms, k, out>>
    /\ UNCHANGED fnVars

\* the run is over and its results go out of scope; only the module global
\* idx_list stays for the next extraction of the process
Release ==
    /\ pc = "done"
    /\ pc' = "idle"
    /\ doc' = <<>>
    /\ terms' = <<>>
    /\ issue_terms' = <<>>
    /\ k' = 1
    /\ out' = <<>>
    /\ issue_file' = <<>>
    /\ UNCHANGED idx_list
    /\ UNCHANGED fnVars

Next ==
    \/ \E pages \in Documents : extract_loan_words(pages)
    \/ WriteTerm
    \/ FinishRun
    \/ Release

Spec == Init /\ [][Next]_vars

---------------------------------------------------------------------------
(* Direct calls of the string functions, one call chain per behaviour. *)

\* code points of the arguments given to _ipa_code_corrections
IpaAlphabet == {"a", "i", "r", "u0101", "u0250", "u032F", "-", "(", ")"}

\* longer arguments: the first pattern of the chain, a corrected group
\* followed by a diacritic, nested groups
IpaExtraInputs ==
    { <<"a", "u02D0", "u0250", "u032F">>,
      <<"(", "r", ")", "u033A">>,
      <<"u00F5", "u0303", "(", "u02D1", ")">>,
      <<"(", "(", "r", ")", ")">> }

\* code points of the arguments given to _espeak_code_corrections
EspeakAlphabet == {"Y", "V", "\"", "#", " ", "&", "E", "~", "."}

\* code points of the transcriptions given to convert_ipa_2_espeak_phoneme:
\* mapped as they are (a, r, u00F8), mapped only once corrected (u0101),
\* never mapped (X)
ConvertAlphabet == {"a", "r", "u00F8", "u0101", "X"}

ConvertInputs == SeqsUpTo(ConvertAlphabet, MaxLen)

FnInputs ==
    SeqsUpTo(IpaAlphabet, MaxLen) \cup IpaExtraInputs
        \cup SeqsUpTo(EspeakAlphabet, MaxLen) \cup ConvertInputs

InitFn ==
    /\ idx_list = {}
    /\ pc = "off"
    /\ doc = <<>>
    /\ terms = <<>>
    /\ issue_terms = <<>>
    /\ k = 1
    /\ out = <<>>
    /\ issue_file = <<>>
    /\ fpc = "ready"
    /\ arg \in FnInputs
    /\ flag = TRUE
    /\ res = <<>>
    /\ prev = <<>>
    /\ raised = "none"

\* x = _ipa_code_corrections(arg)
CallIpaCodeCorrections ==
    /\ fpc = "ready"
    /\ fpc' = "ipa"
    /\ prev' = arg
    /\ res' = _ipa_code_corrections(arg)
    /\ UNCHANGED <<arg, flag, raised>>
    /\ UNCHANGED pipeVars

\* x = _ipa_code_corrections(x), on the result of the first call
CallIpaCodeCorrectionsAgain ==
    /\ fpc = "ipa"
    /\ fpc' = "ipa2"
    /\ prev' = res
    /\ res' = _ipa_code_corrections(res)
    /\ UNCHANGED <<arg, flag, raised>>
    /\ UNCHANGED pipeVars

\* x = _espeak_code_corrections(arg)
CallEspeakCodeCorrections ==
    /\ fpc = "ready"
    /\ fpc' = "espeak"
    /\ prev' = arg
    /\ res' = _espeak_code_corrections(arg)
    /\ UNCHANGED <<arg, flag, raised>>
    /\ UNCHANGED pipeVars

\* x = convert_ipa_2_espeak_phoneme(arg, correct_phonemes)
CallConvert(correct_phonemes) ==
    /\ fpc = "ready"
    /\ arg \in ConvertInputs
    /\ LET c == convert_ipa_2_espeak_phoneme(arg, correct_phonemes)
       IN /\ res' = c.value
          /\ raised' = c.exc
    /\ fpc' = "convert"
    /\ flag' = correct_phonemes
    /\ prev' = arg
    /\ UNCHANGED arg
    /\ UNCHANGED pipeVars

NextFn ==
    \/ CallIpaCodeCorrections
    \/ CallIpaCodeCorrectionsAgain
    \/ CallEspeakCodeCorrections
    \/ \E correct_phonemes \in BOOLEAN : CallConvert(correct_phonemes)

SpecFn == InitFn /\ [][NextFn]_vars

---------------------------------------------------------------------------
(* Vocabulary of the properties. *)

Range(s) == {s[i] : i \in 1..Len(s)}

\* the page is a loan-word page: it has text and a category marker
IsLoanPage(page) == page.has_text /\ page.has_category

\* the label the page is filed under when it passes the word limit
PageLabel(page) == LabelOf(LabelList(page))

\* the page is a loan-word page of at most 4 words with this label
ProducesLabel(page, label) ==
    IsLoanPage(page) /\ Len(LabelList(page)) <= 4 /\ PageLabel(page) = label

\* a multiword page (2 to 4 words) with at least one but fewer segments
\* than words
IsMismatchPage(page) ==
    /\ IsLoanPage(page)
    /\ Len(LabelList(page)) \in 2..4
    /\ Len(IpaCodeList(IpaCode(page))) > 0
    /\ Len(IpaCodeList(IpaCode(page))) < Len(LabelList(page))

\* the 'included' issue record of a mismatch page
MismatchIssue(page) ==
    <<Join(<<" ">>, LabelList(page)),
      Join(<<"|", "|">>, IpaCodeList(IpaCode(page))),
      "included">>

\* the lines of the primary output that carry this label
LinesOf(label) == {j \in 1..Len(out) : out[j][1] = label}

\* combining diacritics among the code points of the IPA correction table
Diacritics ==
    {"u0303", "u030A", "u0311", "u031D", "u032F", "u033A", "u0342", "u0361"}

\* a transcription without hyphen, without precomposed a-macron, without
\* two adjacent diacritics and without '(('
IsPlain(s) ==
    /\ \A i \in 1..Len(s) : s[i] \notin {"-", "u0101"}
    /\ \A i \in 1..(Len(s) - 1) :
          /\ ~(s[i] \in Diacritics /\ s[i + 1] \in Diacritics)
          /\ ~(s[i] = "(" /\ s[i + 1] = "(")

---------------------------------------------------------------------------
(* C1 *)

\* C1: in the entry records of one extraction no two records have the same
\* label, and each record carries the category and the transcription of the
\* first page of the document that produces its label.
C1_UniqueLabelFirstWins ==
    /\ \A i, j \in 1..Len(terms) :
          i # j => terms[i].label # terms[j].label
    /\ \A i \in 1..Len(terms) :
          LET producers == {n \in 1..Len(doc) :
                               ProducesLabel(doc[n], terms[i].label)}
          IN /\ producers # {}
             /\ LET first == CHOOSE n \in producers :
                                 \A m \in producers : n <= m
                IN /\ terms[i].category_loan_word =
                          CategoryLoanWord(doc[first])
                   /\ terms[i].IPA = IpaCode(doc[first])

\* C1 witness: two pages with one label but different categories and
\* transcriptions were extracted into a single record.
C1_Witness ==
    /\ pc = "writing"
    /\ Len(doc) = 2
    /\ Len(terms) = 1
    /\ ProducesLabel(doc[1], terms[1].label)
    /\ ProducesLabel(doc[2], terms[1].label)
    /\ CategoryLoanWord(doc[1]) # CategoryLoanWord(doc[2])
    /\ IpaCode(doc[1]) # IpaCode(doc[2])

---------------------------------------------------------------------------
(* C2 *)

\* C2: a loan-word page whose lowercased title splits on single spaces into
\* more than 4 tokens, empty tokens counted, gets no entry record and no
\* output line, and exactly one 'excluded' issue record per such page.
C2_OverLimitExcluded ==
    pc \in {"writing", "done"} =>
      \A n \in 1..Len(doc) :
         (IsLoanPage(doc[n]) /\ Len(Split(Lower(doc[n].title), " ")) > 4) =>
            LET joined == Join(<<" ">>, Split(Lower(doc[n].title), " "))
                same == {m \in 1..Len(doc) :
                            /\ IsLoanPage(doc[m])
                            /\ Lower(doc[m].title) = Lower(doc[n].title)}
                logged == {j \in 1..Len(issue_terms) :
                              /\ issue_terms[j][1] = joined
                              /\ issue_terms[j][3] = "excluded"}
            IN /\ \A i \in 1..Len(terms) :
                     /\ terms[i].label # joined
                     /\ terms[i].label # <<"(">> \o joined \o <<")">>
               /\ LinesOf(joined) = {}
               /\ LinesOf(<<"(">> \o joined \o <<")">>) = {}
               /\ Cardinality(logged) = Cardinality(same)
               /\ \A j \in logged :
                     \E m \in same : issue_terms[j][2] = IpaCode(doc[m])

\* C2 witness: a run has ended on a document holding a page whose title
\* has more than 4 tokens only because of its empty tokens.
C2_Witness ==
    /\ pc = "done"
    /\ \E n \in 1..Len(doc) :
          /\ IsLoanPage(doc[n])
          /\ Len(Split(Lower(doc[n].title), " ")) > 4
          /\ <<>> \in Range(Split(Lower(doc[n].title), " "))
          /\ Len(issue_terms) = 1

---------------------------------------------------------------------------
(* C3 *)

\* C3 as stated: once a run has ended, every multiword page (2 to 4 words)
\* with at least one but fewer segments than words has a primary-output
\* line, an entry record with its unmodified transcription, and an
\* 'included' issue record with the segments joined by '||'.
C3_EntryAlwaysProduced ==
    pc = "done" =>
      \A n \in 1..Len(doc) :
         IsMismatchPage(doc[n]) =>
            /\ LinesOf(PageLabel(doc[n])) # {}
            /\ \E i \in 1..Len(terms) :
                  /\ terms[i].label = PageLabel(doc[n])
                  /\ terms[i].IPA = IpaCode(doc[n])
            /\ MismatchIssue(doc[n]) \in Range(issue_terms)

\* C3 amended: the mismatch itself excludes nothing.  In every extraction
\* the 'included' issue record of such a page is logged; the page gets an
\* entry record with its unmodified transcription when its label is new
\* (not in idx_list before the call, not produced by an earlier page) and
\* no record when the label was in idx_list; and the writer gives that
\* record one output line unless its conversion is empty or 'failed'.
C3_MismatchExcludesNothing ==
    [][ /\ (pc = "idle" /\ pc' = "writing") =>
           \A n \in 1..Len(doc') :
              IsMismatchPage(doc'[n]) =>
                 /\ MismatchIssue(doc'[n]) \in Range(issue_terms')
                 /\ ( /\ PageLabel(doc'[n]) \notin idx_list
                      /\ \A m \in 1..(n - 1) :
                            ~ProducesLabel(doc'[m], PageLabel(doc'[n])) )
                    => [label |-> PageLabel(doc'[n]),
                        category_loan_word |-> CategoryLoanWord(doc'[n]),
                        IPA |-> IpaCode(doc'[n])] \in Range(terms')
                 /\ PageLabel(doc'[n]) \in idx_list
                    => \A i \in 1..Len(terms') :
                          terms'[i].label # PageLabel(doc'[n])
        /\ ( /\ pc = "writing" /\ pc' = "writing" /\ k' = k + 1
             /\ \E n \in 1..Len(doc) :
                   /\ IsMismatchPage(doc[n])
                   /\ PageLabel(doc[n]) = terms[k].label ) =>
           LET v == convert_ipa_2_espeak_phoneme(terms[k].IPA, TRUE).value
           IN IF v = <<>> \/ v = FAILED
              THEN out' = out
              ELSE /\ Len(out') = Len(out) + 1
                   /\ out'[Len(out')][1] = terms[k].label
      ]_vars

\* C3 witness: a three-word page with two segments was extracted into a
\* record with both segments, its issue was logged, and its line written.
C3_Witness ==
    /\ pc = "done"
    /\ \E n \in 1..Len(doc) :
          /\ IsMismatchPage(doc[n])
          /\ Len(IpaCodeList(IpaCode(doc[n]))) = 2
          /\ MismatchIssue(doc[n]) \in Range(issue_terms)
          /\ \E i \in 1..Len(terms) :
                /\ terms[i].label = PageLabel(doc[n])
                /\ terms[i].IPA = IpaCode(doc[n])
          /\ LinesOf(PageLabel(doc[n])) # {}

---------------------------------------------------------------------------
(* C4 *)

\* C4 as stated: a second run of _ipa_code_corrections on the result of a
\* first run changes nothing, whatever the input.
C4_Idempotent == fpc = "ipa2" => res = prev

\* C4 amended: a second run changes nothing when the input has no hyphen,
\* no precomposed a-macron, no two adjacent combining diacritics and no
\* '(' directly after '('.
C4_IdempotentOnPlain == (fpc = "ipa2" /\ IsPlain(arg)) => res = prev

\* C4 witness: a plain input that the first run changed was run twice.
C4_Witness ==
    /\ fpc = "ipa2"
    /\ IsPlain(arg)
    /\ prev # arg
    /\ \E i \in 1..Len(arg) : arg[i] \in Diacritics

---------------------------------------------------------------------------
(* C5 *)

\* C5: convert_ipa_2_espeak_phoneme always returns: 'failed' when the
\* mapper fails on its input, else the Target Encoding Corrector applied to
\* the concatenated mapper output; the mapper's input is the corrected
\* transcription when correct_phonemes is set and the transcription itself
\* when it is not.
C5_ConvertNeverRaises ==
    fpc = "convert" =>
      /\ raised = "none"
      /\ LET input == IF flag THEN _ipa_code_corrections(arg) ELSE arg
             m == MapUnicodeString(input)
         IN IF m.exc # "none"
            THEN res = FAILED
            ELSE res = _espeak_code_corrections(Join(<<>>, m.list))

\* C5 witness: a call without corrections returned 'failed' for a
\* transcription that converts once corrected.
C5_Witness ==
    /\ fpc = "convert"
    /\ ~flag
    /\ res = FAILED
    /\ MapUnicodeString(_ipa_code_corrections(arg)).exc = "none"

---------------------------------------------------------------------------
(* C6 *)

\* C6: the result of _espeak_code_corrections holds no space.
C6_NoSpaceInResult ==
    fpc = "espeak" => \A i \in 1..Len(res) : res[i] # " "

\* C6 witness: an input holding both a space and a '#' was corrected.
C6_Witness ==
    /\ fpc = "espeak"
    /\ " " \in Range(arg)
    /\ "#" \in Range(arg)
    /\ \E i \in 1..(Len(res) - 3) : SubSeq(res, i, i + 3) = <<"|", "|", "|", "|">>

---------------------------------------------------------------------------
(* C7 *)

\* C7: each iteration of the writer loop has one of three outcomes: an
\* entry with an empty transcription gets no line and the issue record
\* [label, 'not available', 'excluded']; an entry whose conversion is
\* 'failed' gets no line and the issue record [label, transcription,
\* 'excluded']; every other entry gets one line and no issue record.
C7_ThreeOutcomes ==
    [][ (pc = "writing" /\ pc' = "writing" /\ k' = k + 1) =>
          LET t == terms[k]
              v == convert_ipa_2_espeak_phoneme(t.IPA, TRUE).value
          IN IF t.IPA = <<>>
             THEN /\ out' = out
                  /\ issue_terms' =
                       Append(issue_terms,
                              <<t.label, NOT_AVAILABLE, "excluded">>)
             ELSE IF v = FAILED
             THEN /\ out' = out
                  /\ issue_terms' =
                       Append(issue_terms, <<t.label, t.IPA, "excluded">>)
             ELSE /\ Len(out') = Len(out) + 1
                  /\ out'[Len(out')][1] = t.label
                  /\ issue_terms' = issue_terms
      ]_vars

---------------------------------------------------------------------------
(* C8 *)

\* C8: the encoded column of every line of the primary output is the value
\* convert_ipa_2_espeak_phoneme returned for the entry's transcription.
C8_EncodedIsConverted ==
    \A j \in 1..Len(out) :
       \E i \in 1..Len(terms) :
          /\ terms[i].label = out[j][1]
          /\ out[j][2] = convert_ipa_2_espeak_phoneme(terms[i].IPA, TRUE).value

---------------------------------------------------------------------------
(* C9 *)

\* C9: once a run has ended, every entry whose transcription is not empty
\* and whose corrected transcription the mapper maps has exactly one line
\* in the primary output.
C9_MappedEntriesWritten ==
    pc = "done" =>
      \A i \in 1..Len(terms) :
         ( /\ terms[i].IPA # <<>>
           /\ MapUnicodeString(_ipa_code_corrections(terms[i].IPA)).exc = "none" )
         => Cardinality(LinesOf(terms[i].label)) = 1

---------------------------------------------------------------------------
(* C10 *)

\* C10: what extract_loan_words returns for a document is what it returns
\* for that document when it is the first call of the process.
C10_ResultDependsOnDocumentOnly ==
    (pc = "writing" /\ k = 1) =>
      /\ terms = ExtractResult(doc, {}).terms
      /\ issue_terms = ExtractResult(doc, {}).issue_terms

=============================================================================
